---- MODULE Spec2Model ----
(***************************************************************************)
(* The request executor of the n8n SDK (src/src/client.ts): construction   *)
(* of an HttpClient, and the life of one call of request(): building the   *)
(* URL, arming the timeout timer, linking the caller's AbortSignal,        *)
(* issuing fetch, reading the body and classifying every failure.          *)
(*                                                                         *)
(* JavaScript values are tagged records ([t |-> "str", s |-> ...]); an     *)
(* optional value is <<>> (undefined) or <<v>>.  A base URL is a sequence  *)
(* of chunks, each chunk either "/" or a piece of text without a trailing  *)
(* slash, so that the regular expression /\/+$/ is computed chunk by chunk.*)
(***************************************************************************)
EXTENDS Integers, Sequences, FiniteSets, TLC

VARIABLES
    cfg,      \* the N8nClientConfig last handed to the constructor
    client,   \* the HttpClient: its five readonly fields, or the error thrown
    call,     \* the current call of request(): locals, timer, signal, outcome
    overridden, \* whether an earlier call on the client overrode the timeout
    made,     \* the error object last constructed with new, if any
    inflight, \* the calls of request() issued concurrently on the client
    caller    \* the method of the executions resource that is running, with
              \* its arguments and the locals of a caller's pagination loop

vars == <<cfg, client, call, overridden, made, inflight, caller>>

-----------------------------------------------------------------------------
(* Bounds of the model *)

\* Most "/" chunks put before and after the origin of a base URL.
MaxSlashes == 1

\* The statuses given to new N8nApiError(...) are 0..MaxStatus.
MaxStatus == 600

\* Most entries of a query mapping.
MaxQueryLen == 2

\* Most calls in flight at once on one client.
MaxCalls == 2

\* Most "/" chunks at the end of a base URL that differs from another by its
\* trailing slashes only.
MaxTrailing == 3

\* Most pages of a paginated list, and most items of one page.
MaxPages == 2
MaxPageItems == 2

(* Program constants *)

\* config.timeout ?? 30000
DefaultTimeoutMs == 30000

-----------------------------------------------------------------------------
(* Optional values: undefined is <<>>, a present value v is <<v>> *)

None == <<>>
Some(v) == <<v>>

\* a ?? b
Coalesce(opt, dflt) == IF opt = None THEN dflt ELSE opt[1]

-----------------------------------------------------------------------------
(* JavaScript values that are sent as bodies and received as parsed bodies *)

JsUndefined == [t |-> "undefined"]
JsNull == [t |-> "null"]
JsBool(b) == [t |-> "bool", b |-> b]
JsNum(n) == [t |-> "num", n |-> n]
JsStr(s) == [t |-> "str", s |-> s]
\* An object is the sequence of its <<key, value>> entries in insertion order.
JsObj(kv) == [t |-> "obj", kv |-> kv]
\* An array is the sequence of its items.
JsArr(items) == [t |-> "arr", items |-> items]
\* An object that refers to itself: JSON.stringify throws a TypeError on it.
JsCircular == [t |-> "circular"]

\* The truthiness test of `body ? ... : undefined`.
Truthy(v) ==
    CASE v.t = "undefined" -> FALSE
      [] v.t = "null" -> FALSE
      [] v.t = "bool" -> v.b
      [] v.t = "num" -> v.n # 0
      [] v.t = "str" -> v.s # ""
      [] OTHER -> TRUE

RECURSIVE Stringify(_)
RECURSIVE StringifyEntries(_)
RECURSIVE StringifyItems(_)
\* JSON.stringify of a value without cycles.
Stringify(v) ==
    CASE v.t = "null" -> "null"
      [] v.t = "bool" -> IF v.b THEN "true" ELSE "false"
      [] v.t = "num" -> ToString(v.n)
      [] v.t = "str" -> "\"" \o v.s \o "\""
      [] v.t = "obj" -> "{" \o StringifyEntries(v.kv) \o "}"
      [] v.t = "arr" -> "[" \o StringifyItems(v.items) \o "]"

StringifyItems(items) ==
    IF items = <<>> THEN ""
    ELSE Stringify(items[1]) \o (IF Len(items) > 1 THEN "," ELSE "")
         \o StringifyItems(Tail(items))

StringifyEntries(kv) ==
    IF kv = <<>> THEN ""
    ELSE "\"" \o kv[1][1] \o "\":" \o Stringify(kv[1][2])
         \o (IF Len(kv) > 1 THEN "," ELSE "") \o StringifyEntries(Tail(kv))

-----------------------------------------------------------------------------
(* The error classes of the SDK; every error carries its name and message *)

N8nConfigError(message) ==
    [name |-> "N8nConfigError", message |-> message]

N8nApiError(message, status, method, path, body) ==
    [name |-> "N8nApiError", message |-> message, status |-> status,
     method |-> method, path |-> path, body |-> body]

\* A test for client errors that takes 500 for one.
isClientErrorThrough500(e) == e.status >= 400 /\ e.status <= 500

(* The classification methods of an N8nApiError e *)

isClientError(e) == e.status >= 400 /\ e.status < 500

isServerError(e) == e.status >= 500

isNotFound(e) == e.status = 404

isUnauthorized(e) == e.status = 401

isForbidden(e) == e.status = 403

isValidationError(e) == e.status = 400

isConflict(e) == e.status = 409

N8nTimeoutError(timeout) ==
    [name |-> "N8nTimeoutError",
     message |-> "Request timed out after " \o ToString(timeout) \o "ms",
     timeout |-> timeout]

N8nAbortError ==
    [name |-> "N8nAbortError", message |-> "Request was aborted"]

N8nNetworkError(message, originalError) ==
    [name |-> "N8nNetworkError", message |-> message,
     originalError |-> originalError]

\* The errors that derive from N8nError and that request() knows to raise.
TaxonomyNames ==
    {"N8nApiError", "N8nTimeoutError", "N8nAbortError", "N8nNetworkError"}

(* Errors of the platform that reach the catch block of request() *)

\* fetch and the body readers reject with this DOMException once the
\* controller's signal is aborted.
DomAbortError == [name |-> "AbortError", message |-> "This operation was aborted"]

\* new URL(...) on text that is no absolute URL.
InvalidUrlError == [name |-> "TypeError", message |-> "Invalid URL"]

\* JSON.stringify on an object with a cycle.
\* The cycle of the model is b.self = b on a plain object b.
CircularError ==
    [name |-> "TypeError",
     message |-> "Converting circular structure to JSON"
                   \o "\n    --> starting at object with constructor 'Object'"
                   \o "\n    --- property 'self' closes the circle"]

\* fetch when the transport fails before a response (DNS, refused, TLS).
FetchFailedError == [name |-> "TypeError", message |-> "fetch failed"]

\* A body reader when the connection drops while the body is streamed.
TerminatedError == [name |-> "TypeError", message |-> "terminated"]

\* The first character of the texts of the model that are not JSON.
FirstChar == [text \in {"oops"} |-> "o"]

\* response.json() on text that is not JSON: an empty text ends the input,
\* any other text of the model fails on its first character.
JsonSyntaxError(text) ==
    [name |-> "SyntaxError",
     message |-> IF text = "" THEN "Unexpected end of JSON input"
                 ELSE "Unexpected token '" \o FirstChar[text] \o "', \""
                          \o text \o "\" is not valid JSON"]

-----------------------------------------------------------------------------
(* Base URLs: sequences of chunks *)

Slash == "/"
\* An absolute URL without trailing slash (TEST_BASE_URL of the tests).
OriginChunk == "https://test-n8n.example.com"
\* Non-empty text that is no absolute URL: it has no scheme.
HostChunk == "n8n.local"

RECURSIVE Slashes(_)
Slashes(n) == IF n = 0 THEN <<>> ELSE <<Slash>> \o Slashes(n - 1)

BaseUrls ==
    { Slashes(i) \o mid \o Slashes(j) :
        i \in 0..MaxSlashes, j \in 0..MaxSlashes,
        mid \in {<<>>, <<OriginChunk>>, <<HostChunk>>} }

RECURSIVE Concat(_)
\* The text of a chunk sequence.
Concat(chunks) ==
    IF chunks = <<>> THEN "" ELSE chunks[1] \o Concat(Tail(chunks))

\* config.baseUrl.replace(/\/$/, ''): a pattern that matches one slash only.
StripOneSlash(chunks) ==
    IF chunks # <<>> /\ chunks[Len(chunks)] = Slash
    THEN SubSeq(chunks, 1, Len(chunks) - 1)
    ELSE chunks

RECURSIVE StripTrailingSlashes(_)
\* config.baseUrl.replace(/\/+$/, '')
StripTrailingSlashes(chunks) ==
    IF chunks # <<>> /\ chunks[Len(chunks)] = Slash
    THEN StripTrailingSlashes(SubSeq(chunks, 1, Len(chunks) - 1))
    ELSE chunks

-----------------------------------------------------------------------------
(* Header maps: functions from header names to values *)

NoHeaders == << >>

\* { ...a, ...b }: on a key of both, the entry of b wins.
Spread(a, b) ==
    [k \in (DOMAIN a) \cup (DOMAIN b) |-> IF k \in DOMAIN b THEN b[k] ELSE a[k]]

-----------------------------------------------------------------------------
(* Construction *)

ApiKeys == {"", "test-api-key"}
ConfigTimeouts == {None, Some(0), Some(100)}

\* The N8nClientConfig values handed to the constructor; the life of a call
\* does not depend on the optional headers and apiVersion, left undefined.
Configs ==
    [baseUrl : BaseUrls, apiKey : ApiKeys, timeout : ConfigTimeouts,
     headers : {None}, apiVersion : {None}]

NoConfig == [baseUrl |-> <<>>, apiKey |-> "", timeout |-> None,
             headers |-> None, apiVersion |-> None]

NoClient == [state |-> "none"]

\* A constructor that tests apiKey before baseUrl.
HttpClientKeyFirst(config) ==
    IF config.apiKey = ""
    THEN [state |-> "threw", error |-> N8nConfigError("apiKey is required")]
    ELSE IF config.baseUrl = <<>>
    THEN [state |-> "threw", error |-> N8nConfigError("baseUrl is required")]
    ELSE [state |-> "ok",
          baseUrl |-> StripTrailingSlashes(config.baseUrl),
          apiKey |-> config.apiKey,
          defaultTimeout |-> Coalesce(config.timeout, DefaultTimeoutMs),
          defaultHeaders |-> Coalesce(config.headers, NoHeaders),
          apiVersion |-> Coalesce(config.apiVersion, "v1")]

\* new HttpClient(config): the constructed client, or the error it throws.
HttpClient(config) ==
    IF config.baseUrl = <<>>
    THEN [state |-> "threw", error |-> N8nConfigError("baseUrl is required")]
    ELSE IF config.apiKey = ""
    THEN [state |-> "threw", error |-> N8nConfigError("apiKey is required")]
    ELSE [state |-> "ok",
          baseUrl |-> StripTrailingSlashes(config.baseUrl),
          apiKey |-> config.apiKey,
          defaultTimeout |-> Coalesce(config.timeout, DefaultTimeoutMs),
          defaultHeaders |-> Coalesce(config.headers, NoHeaders),
          apiVersion |-> Coalesce(config.apiVersion, "v1")]

\* new N8n(config) constructs its HttpClient first; createN8nClient(config)
\* is new N8n(config).
N8n(config) == HttpClient(config)

createN8nClient(config) == N8n(config)

-----------------------------------------------------------------------------
(* URL building *)

\* Whether new URL(text) accepts the text that starts with this base: the
\* text is an absolute URL exactly when it begins with a scheme.
UrlParses(baseUrl) == baseUrl # <<>> /\ baseUrl[1] = OriginChunk

(* Query mappings: the sequence of the <<key, value>> entries of the object
   in the order in which the caller wrote them, keys distinct *)

\* String(value)
JsString(v) ==
    CASE v.t = "undefined" -> "undefined"
      [] v.t = "null" -> "null"
      [] v.t = "bool" -> IF v.b THEN "true" ELSE "false"
      [] v.t = "num" -> ToString(v.n)
      [] v.t = "str" -> v.s

\* The number that a key which is a canonical array index spells, else -1.
ArrayIndex(key) ==
    CASE key = "1" -> 1
      [] key = "2" -> 2
      [] OTHER -> -1

RECURSIVE SortedByIndex(_)
\* The entries whose keys are array indices, in ascending order of index.
SortedByIndex(entries) ==
    IF entries = {} THEN <<>>
    ELSE LET least == CHOOSE e \in entries :
                          \A f \in entries : ArrayIndex(e[1]) <= ArrayIndex(f[1])
         IN  <<least>> \o SortedByIndex(entries \ {least})

\* Object.entries(query): the own keys that are array indices first, in
\* ascending order, then the other keys in the order of their insertion.
ObjectEntries(query) ==
    SortedByIndex({query[i] : i \in {j \in 1..Len(query) :
                                         ArrayIndex(query[j][1]) >= 0}})
    \o SelectSeq(query, LAMBDA e : ArrayIndex(e[1]) < 0)

RECURSIVE AppendedWithUndefined(_)
\* A loop that appends every entry, the undefined ones too.
AppendedWithUndefined(entries) ==
    IF entries = <<>> THEN <<>>
    ELSE << <<entries[1][1], JsString(entries[1][2])>> >>
         \o AppendedWithUndefined(Tail(entries))

RECURSIVE Appended(_)
\* The pairs appended to url.searchParams for these entries.
Appended(entries) ==
    IF entries = <<>> THEN <<>>
    ELSE (IF entries[1][2].t # "undefined"
          THEN << <<entries[1][1], JsString(entries[1][2])>> >>
          ELSE <<>>)
         \o Appended(Tail(entries))

\* The application/x-www-form-urlencoded form of a key or a value: a space
\* becomes "+"; the other texts of the model consist of unreserved characters.
FormEncode(text) == IF text = "a b" THEN "a+b" ELSE text

RECURSIVE SerializeParams(_)
\* The serialization of url.searchParams: key=value pairs joined by "&".
SerializeParams(pairs) ==
    IF pairs = <<>> THEN ""
    ELSE FormEncode(pairs[1][1]) \o "=" \o FormEncode(pairs[1][2])
         \o (IF Len(pairs) > 1 THEN "&" ELSE "")
         \o SerializeParams(Tail(pairs))

\* url.toString() of a URL without query whose searchParams hold these pairs.
UrlWithParams(text, pairs) ==
    IF pairs = <<>> THEN text ELSE text \o "?" \o SerializeParams(pairs)

\* buildUrl(path, query): the URL text, or None when new URL throws.
buildUrl(cl, path, query) ==
    IF UrlParses(cl.baseUrl)
    THEN Some(UrlWithParams(
                  Concat(cl.baseUrl) \o "/api/" \o cl.apiVersion \o path,
                  IF query = None THEN <<>>
                  ELSE Appended(ObjectEntries(query[1]))))
    ELSE None

-----------------------------------------------------------------------------
(* Responses of the remote server *)

Statuses == {200, 204, 304, 404, 500}

JsonContentType == "application/json; charset=utf-8"
TextContentType == "text/plain"

\* contentType?.includes('application/json')
IsJsonContentType(contentType) ==
    contentType # None /\ contentType[1] = JsonContentType

\* The JSON documents a response body may hold.
JsonDocs ==
    { JsObj(<<>>),
      JsObj(<< <<"message", JsStr("X")>> >>),
      JsObj(<< <<"error", JsStr("E")>> >>),
      JsObj(<< <<"data", JsStr("d")>> >>),
      JsObj(<< <<"message", JsStr("")>> >>),
      JsObj(<< <<"message", JsStr("")>>, <<"error", JsStr("E")>> >>),
      JsObj(<< <<"message", JsStr("X")>>, <<"error", JsStr("E")>> >>),
      JsObj(<< <<"message", JsNum(5)>> >>),
      JsObj(<< <<"message", JsNum(5)>>, <<"error", JsStr("E")>> >>),
      JsObj(<< <<"message", JsNull>>, <<"error", JsStr("")>> >>),
      JsObj(<< <<"error", JsNum(7)>> >>),
      JsObj(<< <<"error", JsObj(<< <<"code", JsNum(7)>> >>)>> >>),
      JsStr("down"),
      JsStr(""),
      JsNum(0),
      JsNull }

(* The pages of a paginated list on the server: a chain is the sizes of its
   pages and how its last page spells that there is no next page *)

Chains ==
    [sizes : UNION {[1..n -> 0..MaxPageItems] : n \in 1..MaxPages},
     last : {"absent", "null"}]

\* The opaque token that leads to page i; one of them holds a space.
CursorToken(i) ==
    CASE i = 2 -> "a b"
      [] OTHER -> "page" \o ToString(i)

RECURSIVE ItemsBefore(_, _)
\* How many items the pages before page i hold.
ItemsBefore(chain, i) ==
    IF i <= 1 THEN 0 ELSE chain.sizes[i - 1] + ItemsBefore(chain, i - 1)

\* The items of page i: executions numbered on through the chain.
PageItems(chain, i) ==
    [k \in 1..chain.sizes[i] |->
        JsObj(<< <<"id", JsNum(ItemsBefore(chain, i) + k)>> >>)]

\* The JSON document that the server sends for page i.
PageDoc(chain, i) ==
    JsObj(<< <<"data", JsArr(PageItems(chain, i))>> >>
          \o (IF i < Len(chain.sizes)
              THEN << <<"nextCursor", JsStr(CursorToken(i + 1))>> >>
              ELSE IF chain.last = "null"
              THEN << <<"nextCursor", JsNull>> >>
              ELSE <<>>))

PageDocs ==
    UNION {{PageDoc(chain, i) : i \in 1..Len(chain.sizes)} : chain \in Chains}

\* The JSON text of every document of the model.
JsonTexts == [doc \in JsonDocs \cup PageDocs |-> Stringify(doc)]

\* response.json(): the parsed document, or None when the text is not JSON.
ParseJson(text) ==
    IF \E v \in DOMAIN JsonTexts : JsonTexts[v] = text
    THEN Some(CHOOSE v \in DOMAIN JsonTexts : JsonTexts[v] = text)
    ELSE None

\* The statuses of the responses that fetch resolves with and delivers
\* without a body.
NullBodyStatuses == {204, 205, 304}

\* The response that fetch resolves with for an answer of the server: the
\* body of an answer with a null body status is dropped.
Delivered(answer) ==
    IF answer.status \in NullBodyStatuses
    THEN [answer EXCEPT !.body = ""]
    ELSE answer

\* What the server answers.
Answers ==
    [status : Statuses, contentType : {Some(JsonContentType)},
     body : {Stringify(JsObj(<< <<"message", JsStr("X")>> >>)), "oops"}]
    \cup
    [status : Statuses, contentType : {Some(TextContentType), None},
     body : {"oops"}]

Responses == {Delivered(answer) : answer \in Answers}

\* A test of the status that lets 3xx responses through.
ResponseOkBelow400(status) == status >= 200 /\ status < 400

\* response.ok
ResponseOk(status) == status >= 200 /\ status <= 299

RECURSIVE Field(_, _)
\* obj[key] of a parsed object: the last entry with that key, or undefined.
Field(kv, key) ==
    IF kv = <<>> THEN JsUndefined
    ELSE IF kv[Len(kv)][1] = key THEN kv[Len(kv)][2]
    ELSE Field(SubSeq(kv, 1, Len(kv) - 1), key)

\* An extraction that tests obj.message for truthiness, not for its type.
ExtractTruthyMessage(body, status) ==
    IF body.t = "obj" /\ Field(body.kv, "message").t = "str"
                      /\ Field(body.kv, "message").s # ""
    THEN Field(body.kv, "message").s
    ELSE IF body.t = "obj" /\ Field(body.kv, "error").t = "str"
    THEN Field(body.kv, "error").s
    ELSE IF body.t = "str" /\ body.s # ""
    THEN body.s
    ELSE "HTTP " \o ToString(status) \o " error"

\* An extraction without the branch for a body that is a string.
ExtractIgnoresText(body, status) ==
    IF body.t = "obj" /\ Field(body.kv, "message").t = "str"
    THEN Field(body.kv, "message").s
    ELSE IF body.t = "obj" /\ Field(body.kv, "error").t = "str"
    THEN Field(body.kv, "error").s
    ELSE "HTTP " \o ToString(status) \o " error"

extractErrorMessage(body, status) ==
    IF body.t = "obj" /\ Field(body.kv, "message").t = "str"
    THEN Field(body.kv, "message").s
    ELSE IF body.t = "obj" /\ Field(body.kv, "error").t = "str"
    THEN Field(body.kv, "error").s
    ELSE IF body.t = "str" /\ body.s # ""
    THEN body.s
    ELSE "HTTP " \o ToString(status) \o " error"

-----------------------------------------------------------------------------
(* The arguments of a call *)

BodylessMethods == {"GET", "DELETE"}
BodyMethods == {"POST"}
Paths == {"/test"}

CallBodies == {None, Some(JsObj(<< <<"name", JsStr("w")>> >>)), Some(JsCircular)}
CallTimeouts == {None, Some(-1), Some(0), Some(50)}
\* No signal, a signal not yet aborted, a signal aborted before the call.
CallSignals == {"none", "fresh", "aborted"}

\* get(path, undefined, options) and delete(path, options) pass no body;
\* post(path, body, options) passes its body.
CallOptions ==
    [method : BodylessMethods, path : Paths, body : {None}, query : {None},
     headers : {None}, timeout : CallTimeouts, signal : CallSignals]
    \cup
    [method : BodyMethods, path : Paths, body : CallBodies, query : {None},
     headers : {None}, timeout : CallTimeouts, signal : CallSignals]

NoOptions == [method |-> "GET", path |-> "/test", body |-> None,
              query |-> None,
              headers |-> None, timeout |-> None, signal |-> "none"]

-----------------------------------------------------------------------------
(* One call of request() *)

Resolved(value) == [kind |-> "resolved", value |-> value]
Rejected(error) == [kind |-> "rejected", error |-> error]

\* No method of a resource is running.
NoCaller == [op |-> "none"]

IdleCall ==
    [pc |-> "idle",            \* idle, fetching, reading, settled
     opts |-> NoOptions,
     timeoutMs |-> 0,          \* the effective timeout
     timer |-> "none",         \* none, pending, fired, cleared
     ctrlAborted |-> FALSE,    \* controller.signal.aborted
     abortedBy |-> "none",     \* who called controller.abort() first
     sigAborted |-> FALSE,     \* signal.aborted of the caller's signal
     sigAt |-> "never",        \* where the call stood when the signal aborted:
                               \* never, before, fetching, reading, settled
     linked |-> FALSE,         \* the listener on the caller's signal is added
     fetches |-> 0,            \* calls of fetch made
     sent |-> None,            \* the request handed to fetch
     response |-> None,        \* the response fetch resolved with
     responseBody |-> None,    \* the parsed body of the response
     caught |-> None,          \* the error the catch block caught
     outcome |-> None,         \* how the promise of request() settled
     settles |-> 0]            \* how many times it settled

\* timeout || this.defaultTimeout: an override of 0 falls back to the default.
EffectiveTimeoutOr(cl, timeout) ==
    IF timeout = None \/ timeout[1] = 0 THEN cl.defaultTimeout ELSE timeout[1]

\* timeout ?? this.defaultTimeout
EffectiveTimeout(cl, timeout) == Coalesce(timeout, cl.defaultTimeout)

\* if (timeoutMs > 0) timeoutId = setTimeout(...)
SetUpTimer(timeoutMs) == IF timeoutMs > 0 THEN "pending" ELSE "none"

\* A clearTimeout that is left out.
ClearTimerForgotten(timer) == timer

\* if (timeoutId) clearTimeout(timeoutId)
ClearTimer(timer) == IF timer = "pending" THEN "cleared" ELSE timer

\* The built-in headers of every request.
BuiltInHeaders(cl) ==
    [h \in {"Content-Type", "X-N8N-API-KEY"} |->
        IF h = "Content-Type" THEN "application/json" ELSE cl.apiKey]

\* A headers object that spreads the client's default headers last.
RequestHeadersDefaultsLast(cl, headers) ==
    Spread(Spread(BuiltInHeaders(cl), Coalesce(headers, NoHeaders)),
           cl.defaultHeaders)

\* A headers object that spreads the built-in headers last.
RequestHeadersBuiltInsLast(cl, headers) ==
    Spread(Spread(cl.defaultHeaders, Coalesce(headers, NoHeaders)),
           BuiltInHeaders(cl))

\* The headers object handed to fetch.
RequestHeaders(cl, headers) ==
    Spread(Spread(BuiltInHeaders(cl), cl.defaultHeaders),
           Coalesce(headers, NoHeaders))

\* body ? JSON.stringify(body) : undefined, for a body without cycles.
RequestBody(body) ==
    IF body # None /\ Truthy(body[1]) THEN Some(Stringify(body[1])) ELSE None

\* A catch block that reports the client's default in the Timeout error.
ClassifyReportsDefault(error, signal, sigAborted, timeoutMs) ==
    IF error.name = "N8nApiError" THEN error
    ELSE IF error.name = "AbortError"
    THEN IF signal # "none" /\ sigAborted
         THEN N8nAbortError
         ELSE N8nTimeoutError(DefaultTimeoutMs)
    ELSE IF error.name = "TypeError"
    THEN N8nNetworkError("Network error: " \o error.message, error)
    ELSE error

\* A catch block that does not look at the caller's signal.
ClassifyIgnoresSignal(error, signal, sigAborted, timeoutMs) ==
    IF error.name = "N8nApiError" THEN error
    ELSE IF error.name = "AbortError"
    THEN N8nTimeoutError(timeoutMs)
    ELSE IF error.name = "TypeError"
    THEN N8nNetworkError("Network error: " \o error.message, error)
    ELSE error

\* A catch block that takes every abort for the caller's.
ClassifyAbortAlways(error, signal, sigAborted, timeoutMs) ==
    IF error.name = "N8nApiError" THEN error
    ELSE IF error.name = "AbortError"
    THEN N8nAbortError
    ELSE IF error.name = "TypeError"
    THEN N8nNetworkError("Network error: " \o error.message, error)
    ELSE error

\* A catch block that looks at the caller's signal before anything else.
ClassifySignalFirst(error, signal, sigAborted, timeoutMs) ==
    IF signal # "none" /\ sigAborted THEN N8nAbortError
    ELSE IF error.name = "N8nApiError" THEN error
    ELSE IF error.name = "AbortError"
    THEN N8nTimeoutError(timeoutMs)
    ELSE IF error.name = "TypeError"
    THEN N8nNetworkError("Network error: " \o error.message, error)
    ELSE error

\* A catch block whose Network error repeats the transport's message bare.
ClassifyBareMessage(error, signal, sigAborted, timeoutMs) ==
    IF error.name = "N8nApiError" THEN error
    ELSE IF error.name = "AbortError"
    THEN IF signal # "none" /\ sigAborted
         THEN N8nAbortError
         ELSE N8nTimeoutError(timeoutMs)
    ELSE IF error.name = "TypeError"
    THEN N8nNetworkError(error.message, error)
    ELSE error

\* The catch block of request(): the error thrown to the caller for an error
\* caught, given the caller's signal and the effective timeout.
Classify(error, signal, sigAborted, timeoutMs) ==
    IF error.name = "N8nApiError" THEN error
    ELSE IF error.name = "AbortError"
    THEN IF signal # "none" /\ sigAborted
         THEN N8nAbortError
         ELSE N8nTimeoutError(timeoutMs)
    ELSE IF error.name = "TypeError"
    THEN N8nNetworkError("Network error: " \o error.message, error)
    ELSE error

\* A catch block that classifies an abort by the source that aborted the
\* controller first, not by the state of the caller's signal.
CaughtByFirstSource(c, error) ==
    [c EXCEPT !.pc = "settled",
              !.timer = ClearTimer(@),
              !.caught = Some(error),
              !.outcome = Some(Rejected(
                  Classify(error, c.opts.signal, c.abortedBy = "signal",
                           c.timeoutMs))),
              !.settles = @ + 1]

\* A catch block that tries fetch once more after a transport failure.
CaughtWithRetry(c, error) ==
    [c EXCEPT !.pc = "settled",
              !.timer = ClearTimer(@),
              !.caught = Some(error),
              !.fetches = IF error.name = "TypeError" THEN @ + 1 ELSE @,
              !.outcome = Some(Rejected(
                  Classify(error, c.opts.signal, c.sigAborted, c.timeoutMs))),
              !.settles = @ + 1]

\* The call after its catch block has handled an error.
Caught(c, error) ==
    [c EXCEPT !.pc = "settled",
              !.timer = ClearTimer(@),
              !.caught = Some(error),
              !.outcome = Some(Rejected(
                  Classify(error, c.opts.signal, c.sigAborted, c.timeoutMs))),
              !.settles = @ + 1]

\* The call after its promise has resolved with a value.
Returned(c, value) ==
    [c EXCEPT !.pc = "settled",
              !.outcome = Some(Resolved(value)),
              !.settles = @ + 1]

\* request(options) from its first line to the await of fetch: the call as it
\* stands when request() first suspends, or as it settled if it threw before.
StartRequest(cl, opts) ==
    LET url == buildUrl(cl, opts.path, opts.query)
        timeoutMs == EffectiveTimeout(cl, opts.timeout)
        started ==
            [IdleCall EXCEPT !.opts = opts,
                             !.sigAborted = (opts.signal = "aborted"),
                             !.sigAt = IF opts.signal = "aborted"
                                       THEN "before" ELSE "never",
                             !.timeoutMs = timeoutMs,
                             !.timer = SetUpTimer(timeoutMs),
                             !.linked = (opts.signal # "none")]
    IN  IF url = None
        THEN \* new URL throws before the try block: nothing catches it
             [IdleCall EXCEPT !.pc = "settled",
                              !.opts = opts,
                              !.sigAborted = (opts.signal = "aborted"),
                              !.sigAt = IF opts.signal = "aborted"
                                        THEN "before" ELSE "never",
                              !.outcome = Some(Rejected(InvalidUrlError)),
                              !.settles = 1]
        ELSE IF opts.body # None /\ opts.body[1].t = "circular"
        THEN \* JSON.stringify throws inside the try block
             Caught(started, CircularError)
        ELSE [started EXCEPT
                 !.pc = "fetching",
                 !.fetches = @ + 1,
                 !.sent = Some([url |-> url[1],
                                method |-> opts.method,
                                headers |-> RequestHeaders(cl, opts.headers),
                                body |-> RequestBody(opts.body)])]

\* What the body of a response is parsed to: response.json() for a JSON
\* content type, response.text() otherwise; None when the parse throws.
ParseBody(response) ==
    IF IsJsonContentType(response.contentType)
    THEN ParseJson(response.body)
    ELSE Some(JsStr(response.body))

\* request() from the parsed body to its end.
FinishRequest(c, parsed) ==
    LET r == c.response[1]
        read == [c EXCEPT !.responseBody = Some(parsed)]
    IN  IF ~ResponseOk(r.status)
        THEN Caught(read, N8nApiError(extractErrorMessage(parsed, r.status),
                                      r.status, c.opts.method, c.opts.path,
                                      parsed))
        ELSE Returned(read, parsed)

\* A request() without the early return for status 204.
OnResponseAlwaysReads(c, r) ==
    [c EXCEPT !.timer = ClearTimer(@), !.response = Some(r), !.pc = "reading"]

\* request() from the response of fetch to its next suspension or its end.
OnResponse(c, r) ==
    LET cleared == [c EXCEPT !.timer = ClearTimer(@), !.response = Some(r)]
    IN  IF r.status = 204
        THEN Returned(cleared, JsUndefined)
        ELSE [cleared EXCEPT !.pc = "reading"]

\* A listener that also rejects the promise of a call that has settled.
AbortControllerRejectsLate(c, source) ==
    IF c.pc = "settled"
    THEN [c EXCEPT !.ctrlAborted = TRUE,
                   !.abortedBy = IF c.ctrlAborted THEN @ ELSE source,
                   !.outcome = Some([kind |-> "rejected", error |-> N8nAbortError]),
                   !.settles = @ + 1]
    ELSE [c EXCEPT !.ctrlAborted = TRUE,
                   !.abortedBy = IF c.ctrlAborted THEN @ ELSE source]

\* controller.abort(), called by the timer callback or the signal listener.
AbortController(c, source) ==
    [c EXCEPT !.ctrlAborted = TRUE,
              !.abortedBy = IF c.ctrlAborted THEN @ ELSE source]

-----------------------------------------------------------------------------
(* The state machine *)

Init ==
    /\ cfg = NoConfig
    /\ client = NoClient
    /\ call = IdleCall
    /\ overridden = FALSE
    /\ made = None
    /\ inflight = [i \in 1..MaxCalls |-> IdleCall]
    /\ caller = NoCaller

\* new HttpClient(config), new N8n(config) or createN8nClient(config), for a
\* config of the given set.
ConstructFrom(configs) ==
    /\ client.state = "none"
    /\ \E config \in configs :
         /\ cfg' = config
         /\ client' \in {HttpClient(config), N8n(config), createN8nClient(config)}
    /\ UNCHANGED <<call, overridden, made, inflight, caller>>

Construct == ConstructFrom(Configs)

\* A request() that stores its timeout override as the client's default.
ClientKeepsOverride(cl, opts) ==
    [cl EXCEPT !.defaultTimeout = Coalesce(opts.timeout, @)]

\* What a call of request() does to the client it is called on: every field
\* is readonly and request() assigns none.
ClientAfterRequest(cl, opts) == cl

\* client.get / post / delete(...), that is client.request(options), once no
\* earlier call is in flight, for options of the given set.
RequestFrom(options) ==
    /\ client.state = "ok"
    /\ call.pc \in {"idle", "settled"}
    /\ \E opts \in options :
         /\ call' = StartRequest(client, opts)
         /\ client' = ClientAfterRequest(client, opts)
    /\ overridden' = (overridden \/ (call.pc = "settled" /\ call.opts.timeout # None))
    /\ UNCHANGED <<cfg, made, inflight, caller>>

Request == RequestFrom(CallOptions)

\* The timeout elapses: the timer callback aborts the controller.
TimerFires ==
    /\ call.timer = "pending"
    /\ call' = AbortController([call EXCEPT !.timer = "fired"], "timer")
    /\ UNCHANGED <<cfg, client, overridden, made, inflight, caller>>

\* The caller aborts its signal: the listener, if added, aborts the controller.
SignalAborts ==
    /\ call.pc # "idle"
    /\ call.opts.signal # "none"
    /\ ~call.sigAborted
    /\ LET aborted == [call EXCEPT !.sigAborted = TRUE, !.sigAt = call.pc]
       IN  call' = IF call.linked
                   THEN AbortController(aborted, "signal")
                   ELSE aborted
    /\ UNCHANGED <<cfg, client, overridden, made, inflight, caller>>

\* fetch resolves with a response of the given set.
FetchResolvesFrom(responses) ==
    /\ call.pc = "fetching"
    /\ ~call.ctrlAborted
    /\ \E r \in responses : call' = OnResponse(call, r)
    /\ UNCHANGED <<cfg, client, overridden, made, inflight, caller>>

FetchResolves == FetchResolvesFrom(Responses)

\* fetch rejects because the transport failed.
FetchFails ==
    /\ call.pc = "fetching"
    /\ ~call.ctrlAborted
    /\ call' = Caught(call, FetchFailedError)
    /\ UNCHANGED <<cfg, client, overridden, made, inflight, caller>>

\* fetch rejects because the controller was aborted.
FetchAborted ==
    /\ call.pc = "fetching"
    /\ call.ctrlAborted
    /\ call' = Caught(call, DomAbortError)
    /\ UNCHANGED <<cfg, client, overridden, made, inflight, caller>>

\* The body arrives and is parsed.
BodyRead ==
    /\ call.pc = "reading"
    /\ ~call.ctrlAborted
    /\ call' = LET parsed == ParseBody(call.response[1])
               IN  IF parsed = None
                   THEN Caught(call, JsonSyntaxError(call.response[1].body))
                   ELSE FinishRequest(call, parsed[1])
    /\ UNCHANGED <<cfg, client, overridden, made, inflight, caller>>

\* The connection drops while the body is read.
BodyFails ==
    /\ call.pc = "reading"
    /\ ~call.ctrlAborted
    /\ call' = Caught(call, TerminatedError)
    /\ UNCHANGED <<cfg, client, overridden, made, inflight, caller>>

\* The body read rejects because the controller was aborted.
BodyAborted ==
    /\ call.pc = "reading"
    /\ call.ctrlAborted
    /\ call' = Caught(call, DomAbortError)
    /\ UNCHANGED <<cfg, client, overridden, made, inflight, caller>>

Next ==
    \/ Construct
    \/ Request
    \/ TimerFires
    \/ SignalAborts
    \/ FetchResolves
    \/ FetchFails
    \/ FetchAborted
    \/ BodyRead
    \/ BodyFails
    \/ BodyAborted

Spec == Init /\ [][Next]_vars

-----------------------------------------------------------------------------
(* Vocabulary of the properties *)

Settled == call.pc = "settled"

\* The call was rejected with an error of this name.
FailedWith(name) ==
    /\ call.outcome # None
    /\ call.outcome[1].kind = "rejected"
    /\ call.outcome[1].error.name = name

\* The call resolved with a value.
Succeeded == call.outcome # None /\ call.outcome[1].kind = "resolved"

\* The catch block caught the AbortError of an aborted controller.
AbortCaught == call.caught # None /\ call.caught[1].name = "AbortError"

\* The caller's signal was aborted by the time the call settled.
SignalSeenAborted == call.sigAt \in {"before", "fetching", "reading"}

\* The per-call override if given, the configured default if given, else 30000.
ExpectedTimeout ==
    IF call.opts.timeout # None THEN call.opts.timeout[1]
    ELSE IF cfg.timeout # None THEN cfg.timeout[1]
    ELSE 30000

\* The call got as far as arming its timer: its URL could be built.
UrlBuilt == call.pc # "idle" /\ client.baseUrl # <<>> /\ client.baseUrl[1] = OriginChunk

-----------------------------------------------------------------------------
(* Properties *)

\* C1: a constructor given an empty baseUrl or an empty apiKey throws an
\* N8nConfigError, and then no call exists: no timer was armed and no fetch
\* made; given both non-empty it succeeds; with both empty the error is the
\* one about baseUrl.
C1_ConstructorFailsFast ==
    client.state # "none" =>
        /\ (client.state = "threw") <=> (cfg.baseUrl = <<>> \/ cfg.apiKey = "")
        /\ (client.state = "ok") <=> (cfg.baseUrl # <<>> /\ cfg.apiKey # "")
        /\ client.state = "threw" =>
              /\ client.error.name = "N8nConfigError"
              /\ client.error.message =
                    IF cfg.baseUrl = <<>> THEN "baseUrl is required"
                    ELSE "apiKey is required"
              /\ call.pc = "idle" /\ call.timer = "none" /\ call.fetches = 0

C1_Witness ==
    /\ client.state = "threw"
    /\ cfg.baseUrl = <<>> /\ cfg.apiKey = ""
    /\ client.error = N8nConfigError("baseUrl is required")

\* C2: a call whose timer fired while fetch was pending and whose signal, if
\* any, was not aborted before it settled is rejected with an N8nTimeoutError
\* whose timeout is the effective timeout, positive, and settles once.
C2_TimeoutCarriesEffectiveTimeout ==
    (Settled /\ call.timer = "fired" /\ ~SignalSeenAborted) =>
        /\ FailedWith("N8nTimeoutError")
        /\ call.outcome[1].error.timeout = ExpectedTimeout
        /\ ExpectedTimeout > 0
        /\ call.settles = 1

C2_Witness ==
    /\ Settled /\ call.timer = "fired"
    /\ call.opts.signal = "fresh" /\ ~call.sigAborted
    /\ call.opts.timeout = Some(50)
    /\ call.outcome = Some(Rejected(N8nTimeoutError(50)))

\* C3: a call that issued its request and whose signal was aborted before
\* the response, either before the call was made or while fetch was pending
\* and before the timer fired, is rejected with an N8nAbortError.
C3_AbortedBeforeResponse ==
    (/\ Settled
     /\ call.fetches = 1
     /\ \/ call.sigAt = "before"
        \/ call.sigAt = "fetching" /\ call.abortedBy = "signal")
    => FailedWith("N8nAbortError")

\* C4: whenever the catch block handles an abort and the caller's signal is
\* aborted at that moment, the call is rejected with an N8nAbortError, whether
\* or not the timer fired too and whichever aborted the controller first.
C4_SignalWinsTieBreak ==
    (Settled /\ AbortCaught /\ SignalSeenAborted) => FailedWith("N8nAbortError")

\* The signal aborted the controller, the timer fired as well before the
\* abort was classified.
C4_Witness ==
    /\ Settled /\ AbortCaught
    /\ call.timer = "fired" /\ call.abortedBy = "signal"
    /\ call.sigAt = "fetching"
    /\ FailedWith("N8nAbortError")

\* C5 as claimed: an aborted call is rejected with an N8nTimeoutError when the
\* timer aborted the controller and with an N8nAbortError when the caller's
\* signal did.  It is stated for the calls whose signal, if any, was not yet
\* aborted when the call was made, so that both sources are wired to the
\* controller.
C5_ClassifiedBySource ==
    (Settled /\ AbortCaught /\ call.opts.signal # "aborted") =>
        /\ call.abortedBy = "timer" => FailedWith("N8nTimeoutError")
        /\ call.abortedBy = "signal" => FailedWith("N8nAbortError")

\* C5 as amended: an aborted call is rejected with an N8nAbortError when the
\* caller's signal aborted the controller, and also when the timer did but the
\* signal is aborted by the time the abort is classified; it is rejected with
\* an N8nTimeoutError when the timer aborted the controller and the signal is
\* absent or not aborted at that time.
C5_ClassifiedBySignalState ==
    (Settled /\ AbortCaught) =>
        /\ call.abortedBy \in {"timer", "signal"}
        /\ call.abortedBy = "signal" => FailedWith("N8nAbortError")
        /\ (call.abortedBy = "timer" /\ SignalSeenAborted)
              => FailedWith("N8nAbortError")
        /\ (call.abortedBy = "timer" /\ ~SignalSeenAborted)
              => /\ FailedWith("N8nTimeoutError")
                 /\ call.outcome[1].error.timeout = ExpectedTimeout

\* The timer aborted the controller, the signal was aborted before the abort
\* was classified.
C5_Witness ==
    /\ Settled /\ AbortCaught
    /\ call.timer = "fired" /\ call.abortedBy = "timer"
    /\ call.sigAt = "fetching"
    /\ FailedWith("N8nAbortError")

\* C6: the effective timeout is the per-call override when one is given, 0
\* and negative values included, else the client's default (30000 when not
\* configured); when it is <= 0 no timer is armed and the call is never
\* rejected with an N8nTimeoutError.
C6_EffectiveTimeout ==
    UrlBuilt =>
        /\ call.timeoutMs = ExpectedTimeout
        /\ call.timeoutMs <= 0 =>
              /\ call.timer = "none"
              /\ ~FailedWith("N8nTimeoutError")
        /\ call.timeoutMs > 0 => call.timer # "none"

C6_Witness ==
    /\ Settled
    /\ cfg.timeout = Some(100) /\ call.opts.timeout = Some(0)
    /\ call.timeoutMs = 0 /\ call.timer = "none"
    /\ call.abortedBy = "signal"
    /\ FailedWith("N8nAbortError")

\* C7: no step changes a constructed client: its fields stay those computed
\* from the constructor's config, and a call without a timeout override uses
\* the client's default whatever the calls before it overrode.
C7_ConfigNeverMutated ==
    [][client.state = "ok" =>
          /\ client' = client
          /\ client'.defaultTimeout = Coalesce(cfg.timeout, 30000)
          /\ client'.baseUrl = StripTrailingSlashes(cfg.baseUrl)
          /\ client'.apiKey = cfg.apiKey
          /\ (call'.pc = "fetching" /\ call'.opts.timeout = None)
                => call'.timeoutMs = Coalesce(cfg.timeout, 30000)]_vars

C7_Witness ==
    /\ overridden
    /\ cfg.timeout = None
    /\ call.opts.timeout = None
    /\ call.outcome = Some(Rejected(N8nTimeoutError(30000)))

\* C8: a settled call has no timer pending, however it settled.
C8_NoTimerLeftPending ==
    Settled => call.timer \in {"none", "fired", "cleared"}

C8_Witness ==
    /\ Settled
    /\ call.timer = "cleared"
    /\ call.fetches = 1
    /\ FailedWith("N8nNetworkError")

\* C9 as claimed: every call of request() makes exactly one call of fetch.
\* It is stated for the calls whose URL could be built.
C9_ExactlyOneFetch ==
    UrlBuilt => call.fetches = 1

\* C9 as amended: a call of request() makes at most one call of fetch: exactly
\* one when its URL can be built and its body serialized, none when either
\* throws; it never makes a second one, whatever the outcome.
C9_AtMostOneFetch ==
    call.pc # "idle" =>
        /\ call.fetches \in {0, 1}
        /\ call.fetches = 1 <=>
              /\ client.baseUrl # <<>> /\ client.baseUrl[1] = OriginChunk
              /\ ~(call.opts.body # None /\ call.opts.body[1] = JsCircular)
        /\ call.fetches = 1 <=> call.sent # None

C9_Witness ==
    /\ Settled
    /\ FailedWith("N8nNetworkError")
    /\ call.caught = Some(FetchFailedError)
    /\ call.fetches = 1

\* C10 as claimed: a call that received a response with a status outside
\* 200..299 is rejected with an N8nApiError carrying the status, the method,
\* the path and the parsed body; a call resolves only on a 2xx status.  It is
\* stated for the calls whose body read met no transport failure and no
\* malformed JSON.
C10_Non2xxIsApiError ==
    /\ (Settled /\ call.response # None
          /\ ~(call.response[1].status \in 200..299)
          /\ call.caught # Some(TerminatedError)
          /\ ~(call.caught # None /\ call.caught[1].name = "SyntaxError")) =>
            /\ FailedWith("N8nApiError")
            /\ call.outcome[1].error.status = call.response[1].status
            /\ call.outcome[1].error.method = call.opts.method
            /\ call.outcome[1].error.path = call.opts.path
            /\ call.responseBody = Some(call.outcome[1].error.body)
    /\ Succeeded => (call.response # None /\ call.response[1].status \in 200..299)

\* C10 as amended: a call that received a response with a status outside
\* 200..299 never resolves; once the body of that response is read and parsed
\* the call is rejected with an N8nApiError carrying the status, the method,
\* the path and the parsed body, and when the body read fails, is aborted or
\* does not parse, the call is rejected with the error of that failure; a
\* call resolves only on a 2xx status.
C10_Non2xxNeverResolves ==
    /\ (Settled /\ call.response # None
          /\ ~(call.response[1].status \in 200..299)) =>
            /\ ~Succeeded
            /\ call.responseBody # None =>
                  /\ FailedWith("N8nApiError")
                  /\ call.outcome[1].error.status = call.response[1].status
                  /\ call.outcome[1].error.method = call.opts.method
                  /\ call.outcome[1].error.path = call.opts.path
                  /\ call.responseBody = Some(call.outcome[1].error.body)
            /\ call.responseBody = None =>
                  \/ FailedWith("N8nAbortError")
                  \/ FailedWith("N8nNetworkError")
                  \/ FailedWith("SyntaxError")
    /\ Succeeded => (call.response # None /\ call.response[1].status \in 200..299)

C10_Witness ==
    /\ Settled
    /\ call.response # None /\ call.response[1].status = 404
    /\ FailedWith("N8nApiError")
    /\ call.outcome[1].error.status = 404
    /\ call.outcome[1].error.body = JsObj(<< <<"message", JsStr("X")>> >>)

-----------------------------------------------------------------------------
(* The message of an API error: one client, one GET, every error response *)

\* The config of the test suite: TEST_BASE_URL and TEST_API_KEY.
TestConfig ==
    [baseUrl |-> <<OriginChunk>>, apiKey |-> "test-api-key", timeout |-> None,
     headers |-> None, apiVersion |-> None]

ErrorStatuses == {200, 400, 403, 500}

\* Bodies sent with a content type that is not JSON, or with none.
TextBodies == {"", "Plain text error", "{\"message\":\"X\"}"}

ErrorResponses ==
    [status : ErrorStatuses, contentType : {Some(JsonContentType)},
     body : {Stringify(doc) : doc \in JsonDocs}]
    \cup
    [status : ErrorStatuses, contentType : {Some(TextContentType), None},
     body : TextBodies]

NextErrorBody ==
    \/ ConstructFrom({TestConfig})
    \/ RequestFrom({NoOptions})
    \/ FetchResolvesFrom(ErrorResponses)
    \/ BodyRead

SpecErrorBody == Init /\ [][NextErrorBody]_vars

\* The call was rejected with an API error built from a body that was read
\* with response.json() (json = TRUE) or with response.text() (json = FALSE).
ApiErrorFrom(json) ==
    /\ Settled
    /\ FailedWith("N8nApiError")
    /\ call.response # None
    /\ IsJsonContentType(call.response[1].contentType) = json

\* The parsed body is an object whose field of this name is a string.
HasStringField(body, key) ==
    body.t = "obj" /\ \E i \in 1..Len(body.kv) :
        /\ body.kv[i][1] = key
        /\ body.kv[i][2].t = "str"
        /\ \A j \in (i + 1)..Len(body.kv) : body.kv[j][1] # key

\* The string that the field of this name holds.
StringField(body, key) ==
    LET i == CHOOSE i \in 1..Len(body.kv) :
                 /\ body.kv[i][1] = key
                 /\ \A j \in (i + 1)..Len(body.kv) : body.kv[j][1] # key
    IN  body.kv[i][2].s

HttpStatusError(status) == "HTTP " \o ToString(status) \o " error"

\* C11 as stated: the message of an API error built from a parsed JSON body
\* is the string message field if the body has one (the empty string
\* included), otherwise the string error field if it has one, and otherwise
\* always "HTTP {status} error".
C11_MessageFieldsElseFallback ==
    ApiErrorFrom(TRUE) =>
        LET e == call.outcome[1].error
        IN  e.message =
              IF HasStringField(e.body, "message")
              THEN StringField(e.body, "message")
              ELSE IF HasStringField(e.body, "error")
              THEN StringField(e.body, "error")
              ELSE HttpStatusError(e.status)

\* C11 as amended: the message of an API error built from a parsed JSON body
\* is the string message field if the body has one (the empty string
\* included), otherwise the string error field if it has one, otherwise the
\* body itself when the JSON document is a non-empty string, and otherwise
\* "HTTP {status} error" with the status of the response.
C11_MessageFieldsElseStringElseFallback ==
    ApiErrorFrom(TRUE) =>
        LET e == call.outcome[1].error
        IN  /\ e.status = call.response[1].status
            /\ e.message =
                  IF HasStringField(e.body, "message")
                  THEN StringField(e.body, "message")
                  ELSE IF HasStringField(e.body, "error")
                  THEN StringField(e.body, "error")
                  ELSE IF e.body.t = "str" /\ e.body.s # ""
                  THEN e.body.s
                  ELSE HttpStatusError(e.status)

\* An empty message field beside a usable error field: the message is "".
C11_Witness ==
    /\ ApiErrorFrom(TRUE)
    /\ call.outcome[1].error.body =
           JsObj(<< <<"message", JsStr("")>>, <<"error", JsStr("E")>> >>)
    /\ call.outcome[1].error.status = 403
    /\ call.outcome[1].error.message = ""

\* C12 as stated: for every non-2xx response whose content type is not JSON,
\* the message of the API error is the raw text of the body, for every text.
C12_MessageIsRawText ==
    ApiErrorFrom(FALSE) =>
        call.outcome[1].error.message = call.response[1].body

\* C12 as amended: for every non-2xx response whose content type is not
\* JSON, the message of the API error is the raw text of the body when that
\* text is not empty, and "HTTP {status} error" when the body is empty.
C12_MessageIsRawTextUnlessEmpty ==
    ApiErrorFrom(FALSE) =>
        LET e == call.outcome[1].error
            text == call.response[1].body
        IN  /\ e.body = JsStr(text)
            /\ e.message = IF text # "" THEN text
                           ELSE HttpStatusError(call.response[1].status)

C12_Witness ==
    /\ ApiErrorFrom(FALSE)
    /\ call.response[1].status = 500
    /\ call.response[1].contentType = Some(TextContentType)
    /\ call.response[1].body = "Plain text error"
    /\ call.outcome[1].error.message = "Plain text error"

-----------------------------------------------------------------------------
(* The errors delivered and the 204 response, in the life of a call *)

\* C13: every error with which a call that issued its request is rejected is
\* one of the taxonomy, an N8nApiError, N8nTimeoutError, N8nAbortError or
\* N8nNetworkError; a failure to serialize the request body or to parse the
\* response body included. (Stated for the calls whose URL was built, so
\* that a violation does not lean on a base URL that new URL rejects.)
C13_EveryErrorClassified ==
    (Settled /\ UrlBuilt /\ call.outcome # None
       /\ call.outcome[1].kind = "rejected")
    => call.outcome[1].error.name \in TaxonomyNames

\* C14: when fetch rejects with the transport's error and no response was
\* obtained, the call is rejected with an N8nNetworkError whose originalError
\* is that error and whose message is "Network error: " followed by the
\* message of that error; never with another error.
C14_TransportFailureIsNetworkError ==
    (Settled /\ call.response = None /\ call.caught = Some(FetchFailedError))
    => /\ FailedWith("N8nNetworkError")
       /\ call.outcome[1].error.originalError = FetchFailedError
       /\ call.outcome[1].error.message = "Network error: fetch failed"
       /\ call.settles = 1

\* The transport fails while the timer of the call is still pending.
C14_Witness ==
    /\ Settled
    /\ call.fetches = 1 /\ call.response = None
    /\ call.caught = Some(FetchFailedError)
    /\ call.timeoutMs = 50 /\ call.timer = "cleared"
    /\ FailedWith("N8nNetworkError")

\* C16: a response with status 204 resolves the call to undefined and its
\* body is neither read nor parsed, whatever its body and content type.
C16_NoContentResolvesUndefined ==
    (call.response # None /\ call.response[1].status = 204)
    => /\ Settled
       /\ call.outcome = Some(Resolved(JsUndefined))
       /\ call.responseBody = None
       /\ call.caught = None

\* A 204 that announces JSON: its empty body would not parse.
C16_Witness ==
    /\ Settled
    /\ call.response =
           Some([status |-> 204, contentType |-> Some(JsonContentType),
                 body |-> ""])
    /\ call.outcome = Some(Resolved(JsUndefined))

-----------------------------------------------------------------------------
(* API errors constructed directly: the classification methods *)

\* The message and the body given to the constructor beside the status.
ErrorDetails ==
    { <<"", JsUndefined>>,
      <<"Not found", JsObj(<< <<"status", JsNum(404)>> >>)>> }

\* new N8nApiError(message, status, method, path, body)
NewApiError ==
    /\ \E details \in ErrorDetails, status \in 0..MaxStatus :
         made' = Some(N8nApiError(details[1], status, "GET", "/test",
                                  details[2]))
    /\ UNCHANGED <<cfg, client, call, overridden, inflight, caller>>

NextApiErrors == NewApiError

SpecApiErrors == Init /\ [][NextApiErrors]_vars

\* How many of these statements are true.
CountTrue(statements) ==
    Cardinality({i \in 1..Len(statements) : statements[i]})

\* C15: the classification methods of an API error depend on its status only
\* and match it exactly: isNotFound iff 404, isUnauthorized iff 401,
\* isForbidden iff 403, isValidationError iff 400, isConflict iff 409,
\* isClientError iff 400..499, isServerError iff 500 or more; so at most one
\* of the five exact tests is true and isClientError and isServerError are
\* never both true.
C15_PredicatesMatchStatus ==
    made # None =>
        LET e == made[1]
        IN  /\ isNotFound(e) = (e.status = 404)
            /\ isUnauthorized(e) = (e.status = 401)
            /\ isForbidden(e) = (e.status = 403)
            /\ isValidationError(e) = (e.status = 400)
            /\ isConflict(e) = (e.status = 409)
            /\ isClientError(e) = (e.status \in 400..499)
            /\ isServerError(e) = (e.status >= 500)
            /\ CountTrue(<<isNotFound(e), isUnauthorized(e), isForbidden(e),
                           isValidationError(e), isConflict(e)>>) <= 1
            /\ ~(isClientError(e) /\ isServerError(e))

\* The first status of the server errors, with a body that says otherwise.
C15_Witness ==
    /\ made # None
    /\ made[1].status = 500
    /\ made[1].body = JsObj(<< <<"status", JsNum(404)>> >>)
    /\ isServerError(made[1]) /\ ~isClientError(made[1])
    /\ ~isNotFound(made[1])

-----------------------------------------------------------------------------
(* The headers of a request: every default map against every per-call map *)

HeaderNames == {"Content-Type", "X-N8N-API-KEY", "X-Custom"}
HeaderValues == {"one", "two"}

\* Every Record<string, string> over these names and values.
HeaderMaps == UNION {[names -> HeaderValues] : names \in SUBSET HeaderNames}

HeaderConfigs ==
    [baseUrl : {<<OriginChunk>>}, apiKey : {"test-api-key", "other-key"},
     timeout : {None}, headers : {None} \cup {Some(h) : h \in HeaderMaps},
     apiVersion : {None}]

HeaderOptions ==
    [method : {"GET"}, path : Paths, body : {None}, query : {None},
     headers : {None} \cup {Some(h) : h \in HeaderMaps},
     timeout : {None}, signal : {"none"}]

NextHeaders ==
    \/ ConstructFrom(HeaderConfigs)
    \/ RequestFrom(HeaderOptions)

SpecHeaders == Init /\ [][NextHeaders]_vars

\* The headers of the request that the call handed to fetch.
SentHeaders == call.sent[1].headers

\* The entries of an optional header map.
Given(headers) == Coalesce(headers, NoHeaders)

\* C17: the headers of every request are the four layers Content-Type:
\* application/json, the API-key header, the client's default headers and
\* the per-call headers, and on a name that several layers define the later
\* layer wins: per-call over default, default over built-in.
C17_HeadersLayered ==
    call.sent # None =>
        /\ DOMAIN SentHeaders =
              {"Content-Type", "X-N8N-API-KEY"}
                \cup DOMAIN Given(cfg.headers)
                \cup DOMAIN Given(call.opts.headers)
        /\ \A name \in DOMAIN SentHeaders :
              SentHeaders[name] =
                IF name \in DOMAIN Given(call.opts.headers)
                THEN Given(call.opts.headers)[name]
                ELSE IF name \in DOMAIN Given(cfg.headers)
                THEN Given(cfg.headers)[name]
                ELSE IF name = "X-N8N-API-KEY" THEN cfg.apiKey
                ELSE "application/json"

\* A per-call X-Custom over a default X-Custom, a default Content-Type over
\* the built-in one.
C17_Witness ==
    /\ call.sent # None
    /\ cfg.headers = Some([name \in {"X-Custom", "Content-Type"} |-> "one"])
    /\ call.opts.headers = Some([name \in {"X-Custom"} |-> "two"])
    /\ SentHeaders["X-Custom"] = "two"
    /\ SentHeaders["Content-Type"] = "one"
    /\ SentHeaders["X-N8N-API-KEY"] = cfg.apiKey

\* C18 as stated: every request carries X-N8N-API-KEY with exactly the apiKey
\* given at construction, for every choice of default and per-call headers.
C18_ApiKeyAlwaysSent ==
    call.sent # None =>
        /\ "X-N8N-API-KEY" \in DOMAIN SentHeaders
        /\ SentHeaders["X-N8N-API-KEY"] = cfg.apiKey

\* C18 as amended: every request carries a header X-N8N-API-KEY; its value
\* is exactly the apiKey given at construction whenever neither the default
\* headers nor the per-call headers define a header of that name, and is
\* otherwise the value of the per-call header, or else of the default one.
C18_ApiKeySentUnlessOverridden ==
    call.sent # None =>
        /\ "X-N8N-API-KEY" \in DOMAIN SentHeaders
        /\ SentHeaders["X-N8N-API-KEY"] =
              IF "X-N8N-API-KEY" \in DOMAIN Given(call.opts.headers)
              THEN Given(call.opts.headers)["X-N8N-API-KEY"]
              ELSE IF "X-N8N-API-KEY" \in DOMAIN Given(cfg.headers)
              THEN Given(cfg.headers)["X-N8N-API-KEY"]
              ELSE cfg.apiKey

\* Default and per-call headers that leave the key alone.
C18_Witness ==
    /\ call.sent # None
    /\ cfg.apiKey = "other-key"
    /\ cfg.headers = Some([name \in {"Content-Type"} |-> "two"])
    /\ call.opts.headers = Some([name \in {"X-Custom"} |-> "one"])
    /\ SentHeaders["X-N8N-API-KEY"] = "other-key"

-----------------------------------------------------------------------------
(* The query string: get(path, query) for every query mapping *)

QueryKeys == {"foo", "undefined", "1", "2"}
QueryValues ==
    {JsUndefined, JsStr("bar"), JsStr("a b"), JsNum(10), JsNum(-1),
     JsBool(TRUE), JsBool(FALSE)}

\* The object literals with at most MaxQueryLen entries, keys distinct.
Queries ==
    {q \in UNION {[1..n -> QueryKeys \X QueryValues] : n \in 0..MaxQueryLen} :
        \A i, j \in 1..Len(q) : i # j => q[i][1] # q[j][1]}

QueryOptions ==
    [method : {"GET"}, path : Paths, body : {None},
     query : {None} \cup {Some(q) : q \in Queries},
     headers : {None}, timeout : {None}, signal : {"none"}]

NextQuery ==
    \/ ConstructFrom({TestConfig})
    \/ RequestFrom(QueryOptions)

SpecQuery == Init /\ [][NextQuery]_vars

\* The query mapping of the call, empty when the call has none.
CallQuery == Coalesce(call.opts.query, <<>>)

\* The text of a value as the claim gives it.
ValueText(v) ==
    CASE v.t = "bool" -> IF v.b THEN "true" ELSE "false"
      [] v.t = "num" -> ToString(v.n)
      [] v.t = "str" -> v.s

\* One pair for every entry that is not undefined, the entries in this order.
DefinedPairs(entries) ==
    LET defined == SelectSeq(entries, LAMBDA e : e[2] # JsUndefined)
    IN  [i \in 1..Len(defined) |-> <<defined[i][1], ValueText(defined[i][2])>>]

\* The entries with an array-index key ("1", "2") in ascending order of the
\* index, then the other entries in the order of their insertion.
IndexKeysFirst(entries) ==
    SelectSeq(entries, LAMBDA e : e[1] = "1")
    \o SelectSeq(entries, LAMBDA e : e[1] = "2")
    \o SelectSeq(entries, LAMBDA e : e[1] \notin {"1", "2"})

TestUrl == "https://test-n8n.example.com/api/v1/test"

\* C20 as stated: the query mapping is iterated in insertion order; every
\* key whose value is not undefined contributes exactly one pair
\* key=String(value), a key whose value is undefined contributes nothing.
C20_PairsInInsertionOrder ==
    call.sent # None =>
        call.sent[1].url = UrlWithParams(TestUrl, DefinedPairs(CallQuery))

\* C20 as amended: the query mapping is iterated in the order of
\* Object.entries, that is the keys that are array indices first in
\* ascending numeric order and then the other keys in insertion order; every
\* key whose value is not undefined contributes exactly one pair
\* key=String(value), a key whose value is undefined contributes nothing, and
\* a mapping without a defined value leaves the URL without a query string.
C20_PairsInEntriesOrder ==
    call.sent # None =>
        /\ call.sent[1].url =
              UrlWithParams(TestUrl, DefinedPairs(IndexKeysFirst(CallQuery)))
        /\ (\A i \in 1..Len(CallQuery) : CallQuery[i][2] = JsUndefined)
              => call.sent[1].url = TestUrl

\* The query of the test suite: { foo: 'bar', undefined: undefined }.
C20_Witness ==
    /\ call.sent # None
    /\ call.opts.query =
          Some(<< <<"foo", JsStr("bar")>>, <<"undefined", JsUndefined>> >>)
    /\ call.sent[1].url = "https://test-n8n.example.com/api/v1/test?foo=bar"

-----------------------------------------------------------------------------
(* Calls issued concurrently on one client: every call of request() has its
   own controller, timer, listener and response as locals of its invocation *)

CallIds == 1..MaxCalls

\* Call i is made with a timeout of its own, with or without a signal of its
\* own.
ConcurrentOptions(i) ==
    [method : {"GET"}, path : Paths, body : {None}, query : {None},
     headers : {None}, timeout : {Some(50 * i)}, signal : {"none", "fresh"}]

ConcurrentResponses ==
    [status : {200, 404}, contentType : {Some(JsonContentType)},
     body : {Stringify(JsObj(<< <<"message", JsStr("X")>> >>))}]

\* A controller kept on the client: an abort reaches every call in flight.
AbortShared(calls, i, source) ==
    [j \in DOMAIN calls |->
        IF j = i THEN AbortController([calls[j] EXCEPT !.timer = "fired"], source)
        ELSE IF calls[j].pc \in {"fetching", "reading"}
        THEN AbortController(calls[j], source)
        ELSE calls[j]]

\* The calls after the timer callback of call i has run: controller is a
\* local of the invocation, so the abort reaches call i only.
AbortOwn(calls, i, source) ==
    [calls EXCEPT ![i] = AbortController([@ EXCEPT !.timer = "fired"], source)]

ConcurrentConstruct ==
    /\ ConstructFrom({TestConfig})

ConcurrentRequest ==
    /\ client.state = "ok"
    /\ \E i \in CallIds :
         /\ inflight[i].pc = "idle"
         /\ \E opts \in ConcurrentOptions(i) :
              inflight' = [inflight EXCEPT ![i] = StartRequest(client, opts)]
    /\ UNCHANGED <<cfg, client, call, overridden, made, caller>>

ConcurrentTimerFires ==
    /\ \E i \in CallIds :
         /\ inflight[i].timer = "pending"
         /\ inflight' = AbortOwn(inflight, i, "timer")
    /\ UNCHANGED <<cfg, client, call, overridden, made, caller>>

ConcurrentSignalAborts ==
    /\ \E i \in CallIds :
         /\ inflight[i].pc # "idle"
         /\ inflight[i].opts.signal # "none"
         /\ ~inflight[i].sigAborted
         /\ LET aborted == [inflight[i] EXCEPT !.sigAborted = TRUE,
                                               !.sigAt = inflight[i].pc]
            IN  inflight' = [inflight EXCEPT ![i] =
                                IF aborted.linked
                                THEN AbortController(aborted, "signal")
                                ELSE aborted]
    /\ UNCHANGED <<cfg, client, call, overridden, made, caller>>

ConcurrentFetchResolves ==
    /\ \E i \in CallIds :
         /\ inflight[i].pc = "fetching"
         /\ ~inflight[i].ctrlAborted
         /\ \E r \in ConcurrentResponses :
              inflight' = [inflight EXCEPT ![i] = OnResponse(@, r)]
    /\ UNCHANGED <<cfg, client, call, overridden, made, caller>>

ConcurrentFetchFails ==
    /\ \E i \in CallIds :
         /\ inflight[i].pc = "fetching"
         /\ ~inflight[i].ctrlAborted
         /\ inflight' = [inflight EXCEPT ![i] = Caught(@, FetchFailedError)]
    /\ UNCHANGED <<cfg, client, call, overridden, made, caller>>

ConcurrentAborted ==
    /\ \E i \in CallIds :
         /\ inflight[i].pc \in {"fetching", "reading"}
         /\ inflight[i].ctrlAborted
         /\ inflight' = [inflight EXCEPT ![i] = Caught(@, DomAbortError)]
    /\ UNCHANGED <<cfg, client, call, overridden, made, caller>>

ConcurrentBodyRead ==
    /\ \E i \in CallIds :
         /\ inflight[i].pc = "reading"
         /\ ~inflight[i].ctrlAborted
         /\ inflight' =
               [inflight EXCEPT ![i] =
                   LET parsed == ParseBody(inflight[i].response[1])
                   IN  IF parsed = None
                       THEN Caught(@, JsonSyntaxError(inflight[i].response[1].body))
                       ELSE FinishRequest(@, parsed[1])]
    /\ UNCHANGED <<cfg, client, call, overridden, made, caller>>

NextConcurrent ==
    \/ ConcurrentConstruct
    \/ ConcurrentRequest
    \/ ConcurrentTimerFires
    \/ ConcurrentSignalAborts
    \/ ConcurrentFetchResolves
    \/ ConcurrentFetchFails
    \/ ConcurrentAborted
    \/ ConcurrentBodyRead

SpecConcurrent == Init /\ [][NextConcurrent]_vars

\* The outcome of a settled call follows from the events of that call alone:
\* a value is the parsed body of its own 2xx response, an API error carries
\* the status and body of its own response, a Timeout error its own timeout
\* after its own timer fired, an Abort error comes after its own signal was
\* aborted while the call was in flight, and a Network error wraps the
\* failure of its own fetch.
OwnOutcome(c) ==
    LET o == c.outcome[1]
    IN  /\ c.outcome # None
        /\ c.settles = 1
        /\ o.kind = "resolved" =>
              /\ c.response # None /\ c.response[1].status = 200
              /\ Some(o.value) = ParseJson(c.response[1].body)
        /\ o.kind = "rejected" =>
              CASE o.error.name = "N8nApiError" ->
                     /\ c.response # None /\ c.response[1].status = 404
                     /\ o.error.status = 404
                     /\ Some(o.error.body) = ParseJson(c.response[1].body)
                [] o.error.name = "N8nTimeoutError" ->
                     /\ c.timer = "fired"
                     /\ o.error.timeout = c.opts.timeout[1]
                     /\ c.sigAt \in {"never", "settled"}
                [] o.error.name = "N8nAbortError" ->
                     /\ c.opts.signal = "fresh"
                     /\ c.sigAt \in {"fetching", "reading"}
                [] o.error.name = "N8nNetworkError" ->
                     /\ c.response = None
                     /\ o.error.originalError = FetchFailedError
                [] OTHER -> FALSE

\* A step changes the record of one call at most, and a settled call keeps
\* its outcome.
OneCallSteps ==
    /\ \A i, j \in CallIds :
          (i # j /\ inflight'[i] # inflight[i]) => inflight'[j] = inflight[j]
    /\ \A i \in CallIds :
          inflight[i].pc = "settled" => inflight'[i].outcome = inflight[i].outcome

\* C19: calls issued concurrently on one client are independent under every
\* interleaving: every step is a step of one call and leaves the other
\* calls as they are, a settled call keeps its outcome, and every settled
\* call has the outcome that its own timer, signal, response or transport
\* failure gives it.
C19_CallsIndependent ==
    /\ [](\A i \in CallIds :
             inflight[i].pc = "settled" => OwnOutcome(inflight[i]))
    /\ [][OneCallSteps]_vars

\* Call 1 timed out after 50 ms while call 2, issued before that, was still
\* in flight and then resolved with its own response.
C19_Witness ==
    /\ inflight[1].pc = "settled" /\ inflight[2].pc = "settled"
    /\ inflight[1].outcome = Some(Rejected(N8nTimeoutError(50)))
    /\ inflight[2].timer = "cleared"
    /\ inflight[2].outcome =
          Some(Resolved(JsObj(<< <<"message", JsStr("X")>> >>)))

-----------------------------------------------------------------------------
(* Trailing slashes of the base URL: the same origin or the same origin with
   a path prefix, followed by 0..MaxTrailing slashes *)

\* A path prefix of an n8n instance served below the root of its host.
PrefixChunk == "n8n"

SlashedBaseUrls ==
    { base \o Slashes(j) :
        base \in {<<OriginChunk>>, <<OriginChunk, Slash, PrefixChunk>>},
        j \in 0..MaxTrailing }

SlashedConfigs ==
    [baseUrl : SlashedBaseUrls, apiKey : {"test-api-key"}, timeout : {None},
     headers : {None}, apiVersion : {None}]

SlashedPaths == {"/test", "/workflows/1"}

SlashedOptions ==
    [method : BodylessMethods, path : SlashedPaths, body : {None},
     query : {None, Some(<< <<"foo", JsStr("bar")>> >>),
              Some(<< <<"limit", JsNum(10)>>, <<"active", JsBool(TRUE)>> >>)},
     headers : {None}, timeout : {None}, signal : {"none"}]

\* The response that lets a call settle, so that the next one can be made.
NoContentResponse == [status |-> 204, contentType |-> None, body |-> ""]

NextBaseUrl ==
    \/ ConstructFrom(SlashedConfigs)
    \/ RequestFrom(SlashedOptions)
    \/ FetchResolvesFrom({NoContentResponse})

SpecBaseUrl == Init /\ [][NextBaseUrl]_vars

\* The base URL without the slashes at its end: the chunks up to the last
\* one that is not a slash.
WithoutTrailingSlashes(chunks) ==
    LET kept == {i \in 1..Len(chunks) : chunks[i] # Slash}
    IN  IF kept = {} THEN <<>>
        ELSE SubSeq(chunks, 1, CHOOSE i \in kept : \A j \in kept : j <= i)

\* C21: the request URL of a client depends on its baseUrl only through the
\* text before the trailing slashes, so that two clients whose baseUrl differ
\* by one or more trailing slashes send identical URLs for every path and
\* query; the stored base URL has no trailing slash and stripping it again
\* changes nothing.
C21_TrailingSlashesIgnored ==
    /\ client.state = "ok" =>
          /\ client.baseUrl = WithoutTrailingSlashes(cfg.baseUrl)
          /\ WithoutTrailingSlashes(client.baseUrl) = client.baseUrl
          /\ client.baseUrl # <<>> => client.baseUrl[Len(client.baseUrl)] # Slash
    /\ call.sent # None =>
          call.sent[1].url =
             UrlWithParams(Concat(WithoutTrailingSlashes(cfg.baseUrl))
                               \o "/api/v1" \o call.opts.path,
                           DefinedPairs(IndexKeysFirst(CallQuery)))

\* A client made with two trailing slashes sends the URL of the client made
\* with none.
C21_Witness ==
    /\ cfg.baseUrl = <<OriginChunk, Slash, Slash>>
    /\ call.sent # None
    /\ call.opts.query = Some(<< <<"foo", JsStr("bar")>> >>)
    /\ call.sent[1].url = "https://test-n8n.example.com/api/v1/test?foo=bar"

-----------------------------------------------------------------------------
(* The body of a request: post, put and patch with every kind of body *)

SuppliedBodies ==
    { JsObj(<< <<"name", JsStr("test")>> >>), JsObj(<<>>),
      JsNum(5), JsNum(0), JsBool(TRUE), JsBool(FALSE),
      JsStr("x"), JsStr(""), JsNull }

BodyOptions ==
    [method : {"POST", "PUT", "PATCH"}, path : SlashedPaths,
     body : {None} \cup {Some(b) : b \in SuppliedBodies}, query : {None},
     headers : {None}, timeout : {None}, signal : {"none"}]

NextBody ==
    \/ ConstructFrom({TestConfig})
    \/ RequestFrom(BodyOptions)
    \/ FetchResolvesFrom({NoContentResponse})

SpecBody == Init /\ [][NextBody]_vars

\* C22: whenever a body is supplied to a call, the request carries that body
\* serialized as JSON text, for every supplied value (0, false, the empty
\* string and null included); the request has no body only when none was
\* supplied.
C22_SuppliedBodyIsSent ==
    call.sent # None =>
        /\ call.opts.body # None =>
              call.sent[1].body = Some(Stringify(call.opts.body[1]))
        /\ call.sent[1].body = None => call.opts.body = None

-----------------------------------------------------------------------------
(* Progress of a call: what the runtime guarantees to happen *)

\* The event loop runs the callback of a pending timer, and fetch and the
\* body readers reject once their controller is aborted; whether and when the
\* server answers or sends the body is up to the server and the network.
SpecLive ==
    /\ Init /\ [][Next]_vars
    /\ WF_vars(TimerFires)
    /\ WF_vars(FetchAborted)
    /\ WF_vars(BodyAborted)

\* The call is in flight under a positive effective timeout and was given
\* no signal.
InFlightUnderTimeout ==
    /\ call.pc \in {"fetching", "reading"}
    /\ call.timeoutMs > 0
    /\ call.opts.signal = "none"

\* C23: a call with a positive effective timeout and no external signal
\* eventually settles, whether it is waiting for the response or reading the
\* body of the response.
C23_SettlesUnderTimeout == InFlightUnderTimeout ~> Settled

-----------------------------------------------------------------------------
(* Classification and settlement, in the life of a call *)

\* C24: a call is rejected with an N8nNetworkError only when its fetch was
\* issued and failed before a response: never after a response was received
\* and never when no fetch was attempted.
C24_NetworkErrorOnlyBeforeResponse ==
    (Settled /\ FailedWith("N8nNetworkError"))
    => (call.fetches = 1 /\ call.response = None)

\* C25: the stored base URL of every constructed client is not empty, does
\* not end with a slash and is one that new URL accepts, so that no call is
\* rejected because its URL does not parse.
C25_StoredBaseUrlValid ==
    /\ client.state = "ok" =>
          /\ client.baseUrl # <<>>
          /\ client.baseUrl[Len(client.baseUrl)] # Slash
    /\ Settled => call.outcome # Some(Rejected(InvalidUrlError))

\* The state of a call before and after it settled.
SettledOnce ==
    /\ call.pc \in {"fetching", "reading"} =>
          (call.outcome = None /\ call.settles = 0)
    /\ Settled =>
          /\ call.settles = 1
          /\ call.outcome # None
          /\ call.outcome[1].kind \in {"resolved", "rejected"}

\* An event that reaches a settled call leaves its outcome as it is.
LateEventsIgnored ==
    (Settled /\ (SignalAborts \/ TimerFires)) =>
        /\ call'.pc = "settled"
        /\ call'.outcome = call.outcome
        /\ call'.settles = call.settles

\* C26: a call in flight has no outcome, a settled call has exactly one, a
\* value or one error, and settled once; the caller's signal aborted later
\* or a late timer neither changes the outcome nor settles the call again.
C26_SettlesExactlyOnce == []SettledOnce /\ [][LateEventsIgnored]_vars

\* The signal of a call that resolved is aborted afterwards: the listener,
\* never removed, aborts the controller and the outcome stays.
C26_Witness ==
    /\ Settled /\ Succeeded
    /\ call.sigAt = "settled" /\ call.ctrlAborted
    /\ call.settles = 1

\* C27: an N8nAbortError is raised only for a call that was given a signal
\* and whose signal was aborted when the error was classified; an
\* N8nTimeoutError only for a call whose own timer fired under a positive
\* effective timeout and whose signal, if any, was not aborted then, and it
\* carries the effective timeout of the call.
C27_AbortClassificationSound ==
    /\ FailedWith("N8nAbortError") =>
          /\ call.opts.signal # "none"
          /\ SignalSeenAborted
          /\ AbortCaught
    /\ FailedWith("N8nTimeoutError") =>
          /\ call.timer = "fired"
          /\ call.timeoutMs > 0
          /\ ~SignalSeenAborted
          /\ call.outcome[1].error.timeout = call.timeoutMs
          /\ call.timeoutMs = ExpectedTimeout

\* The signal aborts the body read of a call whose timer was cleared.
C27_Witness ==
    /\ FailedWith("N8nAbortError")
    /\ call.opts.signal = "fresh" /\ call.sigAt = "reading"
    /\ call.abortedBy = "signal" /\ call.timer = "cleared"

\* C28: once a response with a status outside 200..299 is received and its
\* body parsed, the call is rejected with the N8nApiError of that response,
\* thrown on unchanged by the catch block, whether or not the caller's signal
\* is aborted by then.
C28_ApiErrorNotReclassified ==
    (Settled /\ call.response # None /\ call.responseBody # None
       /\ ~(call.response[1].status \in 200..299))
    => /\ FailedWith("N8nApiError")
       /\ call.caught = Some(call.outcome[1].error)
       /\ call.outcome[1].error.status = call.response[1].status

\* A 500 received by a call whose signal was aborted before the call.
C28_Witness ==
    /\ Settled
    /\ call.sigAt = "before" /\ call.sigAborted
    /\ call.response # None /\ call.response[1].status = 500
    /\ FailedWith("N8nApiError")

-----------------------------------------------------------------------------
(* The executions resource (src/src/resources/executions.ts) *)

\* { key: value, ...params }: the entry of the method first, so that an
\* entry of params with that key replaces it.
WithDefaultEntry(params, key, value) ==
    IF \E i \in 1..Len(params) : params[i][1] = key
    THEN << <<key, (CHOOSE e \in {params[i] : i \in 1..Len(params)} :
                      e[1] = key)[2]>> >>
         \o SelectSeq(params, LAMBDA e : e[1] # key)
    ELSE << <<key, value>> >> \o params

\* { ...params, key: value }: an entry of params with that key keeps its
\* place and takes the value; otherwise the entry is added at the end.
WithEntry(params, key, value) ==
    IF \E i \in 1..Len(params) : params[i][1] = key
    THEN [i \in 1..Len(params) |->
             IF params[i][1] = key THEN <<key, value>> ELSE params[i]]
    ELSE Append(params, <<key, value>>)

\* list(params): client.get('/executions', params), up to the await.
list(cl, params) ==
    StartRequest(cl, [method |-> "GET", path |-> "/executions", body |-> None,
                      query |-> params, headers |-> None, timeout |-> None,
                      signal |-> "none"])

\* A list() that forgets the cursor of the response.
ListResultWithoutCursor(response) ==
    [data |-> Field(response.kv, "data"), nextCursor |-> JsUndefined]

\* What list() returns for the parsed body that client.get resolved with.
ListResult(response) ==
    [data |-> Field(response.kv, "data"),
     nextCursor |-> Field(response.kv, "nextCursor")]

\* get(id, includeData): client.get(`/executions/${id}`, query), the query
\* holding includeData when it is given.
get(cl, id, includeData) ==
    StartRequest(cl, [method |-> "GET",
                      path |-> "/executions/" \o ToString(id),
                      body |-> None,
                      query |-> IF includeData # None
                                THEN Some(<< <<"includeData",
                                               JsBool(includeData[1])>> >>)
                                ELSE None,
                      headers |-> None, timeout |-> None, signal |-> "none"])

\* delete(id): client.delete(`/executions/${id}`).
delete(cl, id) ==
    StartRequest(cl, [method |-> "DELETE",
                      path |-> "/executions/" \o ToString(id),
                      body |-> None, query |-> None,
                      headers |-> None, timeout |-> None, signal |-> "none"])

getByWorkflow(cl, workflowId, params) ==
    list(cl, Some(WithEntry(Coalesce(params, <<>>), "workflowId",
                            JsStr(workflowId))))

getRunning(cl, params) ==
    list(cl, Some(WithEntry(Coalesce(params, <<>>), "status", JsStr("running"))))

getFailed(cl, params) ==
    list(cl, Some(WithEntry(Coalesce(params, <<>>), "status", JsStr("error"))))

getSuccessful(cl, params) ==
    list(cl, Some(WithEntry(Coalesce(params, <<>>), "status", JsStr("success"))))

getWaiting(cl, params) ==
    list(cl, Some(WithEntry(Coalesce(params, <<>>), "status", JsStr("waiting"))))

(* The params handed to the methods *)

ParamEntries ==
    { <<"status", JsStr("error")>>, <<"status", JsUndefined>>,
      <<"workflowId", JsStr("wf-2")>>, <<"limit", JsNum(10)>>,
      <<"includeData", JsBool(TRUE)>> }

\* undefined, or an object of at most two of these entries, keys distinct.
ExecutionParams ==
    {None} \cup
    {Some(q) : q \in {q \in UNION {[1..n -> ParamEntries] : n \in 0..2} :
                        \A i, j \in 1..Len(q) : i # j => q[i][1] # q[j][1]}}

WorkflowIds == {"wf-1"}

StatusMethods == {"getRunning", "getFailed", "getSuccessful", "getWaiting"}

ExecutionIds == {1000}

List ==
    /\ client.state = "ok"
    /\ call.pc \in {"idle", "settled"}
    /\ \E params \in ExecutionParams :
         /\ call' = list(client, params)
         /\ caller' = [op |-> "list", params |-> params, workflowId |-> None]
    /\ UNCHANGED <<cfg, client, overridden, made, inflight>>

Get ==
    /\ client.state = "ok"
    /\ call.pc \in {"idle", "settled"}
    /\ \E id \in ExecutionIds, includeData \in {None, Some(TRUE), Some(FALSE)} :
         /\ call' = get(client, id, includeData)
         /\ caller' = [op |-> "get", id |-> id, includeData |-> includeData]
    /\ UNCHANGED <<cfg, client, overridden, made, inflight>>

Delete ==
    /\ client.state = "ok"
    /\ call.pc \in {"idle", "settled"}
    /\ \E id \in ExecutionIds :
         /\ call' = delete(client, id)
         /\ caller' = [op |-> "delete", id |-> id]
    /\ UNCHANGED <<cfg, client, overridden, made, inflight>>

GetRunning ==
    /\ client.state = "ok"
    /\ call.pc \in {"idle", "settled"}
    /\ \E params \in ExecutionParams :
         /\ call' = getRunning(client, params)
         /\ caller' = [op |-> "getRunning", params |-> params, workflowId |-> None]
    /\ UNCHANGED <<cfg, client, overridden, made, inflight>>

GetFailed ==
    /\ client.state = "ok"
    /\ call.pc \in {"idle", "settled"}
    /\ \E params \in ExecutionParams :
         /\ call' = getFailed(client, params)
         /\ caller' = [op |-> "getFailed", params |-> params, workflowId |-> None]
    /\ UNCHANGED <<cfg, client, overridden, made, inflight>>

GetSuccessful ==
    /\ client.state = "ok"
    /\ call.pc \in {"idle", "settled"}
    /\ \E params \in ExecutionParams :
         /\ call' = getSuccessful(client, params)
         /\ caller' = [op |-> "getSuccessful", params |-> params, workflowId |-> None]
    /\ UNCHANGED <<cfg, client, overridden, made, inflight>>

GetWaiting ==
    /\ client.state = "ok"
    /\ call.pc \in {"idle", "settled"}
    /\ \E params \in ExecutionParams :
         /\ call' = getWaiting(client, params)
         /\ caller' = [op |-> "getWaiting", params |-> params, workflowId |-> None]
    /\ UNCHANGED <<cfg, client, overridden, made, inflight>>

GetByWorkflow ==
    /\ client.state = "ok"
    /\ call.pc \in {"idle", "settled"}
    /\ \E workflowId \in WorkflowIds, params \in ExecutionParams :
         /\ call' = getByWorkflow(client, workflowId, params)
         /\ caller' = [op |-> "getByWorkflow", params |-> params,
                       workflowId |-> Some(workflowId)]
    /\ UNCHANGED <<cfg, client, overridden, made, inflight>>

\* fetch resolves, with any response, for a call that a method made.
ExecutionsFetchResolves ==
    /\ call.pc = "fetching"
    /\ call' = OnResponse(call, NoContentResponse)
    /\ UNCHANGED <<cfg, client, overridden, made, inflight, caller>>

NextExecutions ==
    \/ ConstructFrom({TestConfig})
    \/ List
    \/ Get
    \/ Delete
    \/ GetRunning
    \/ GetFailed
    \/ GetSuccessful
    \/ GetWaiting
    \/ GetByWorkflow
    \/ ExecutionsFetchResolves

SpecExecutions == Init /\ [][NextExecutions]_vars

\* The key and the value that each convenience method fixes.
FixedKey == IF caller.op = "getByWorkflow" THEN "workflowId" ELSE "status"

FixedValue ==
    CASE caller.op = "getByWorkflow" -> caller.workflowId[1]
      [] caller.op = "getRunning" -> "running"
      [] caller.op = "getFailed" -> "error"
      [] caller.op = "getSuccessful" -> "success"
      [] caller.op = "getWaiting" -> "waiting"

\* The pairs of a sequence of pairs whose key is not this one.
PairsBut(pairs, key) == SelectSeq(pairs, LAMBDA pair : pair[1] # key)

ExecutionsUrl == "https://test-n8n.example.com/api/v1/executions"

\* C30: getRunning, getFailed, getSuccessful and getWaiting always send
\* status = running / error / success / waiting and getByWorkflow(id) always
\* sends workflowId = id, whatever params holds under that key; every other
\* param is sent as list(params) would send it, and the call is one GET
\* /executions.
C30_ConvenienceFilterFixed ==
    caller.op \in StatusMethods \cup {"getByWorkflow"} =>
        LET given == DefinedPairs(IndexKeysFirst(Coalesce(caller.params, <<>>)))
            sent == DefinedPairs(IndexKeysFirst(CallQuery))
        IN  /\ call.sent # None
            /\ call.fetches = 1
            /\ call.sent[1].method = "GET"
            /\ call.opts.path = "/executions"
            /\ call.sent[1].url = UrlWithParams(ExecutionsUrl, sent)
            /\ Cardinality({i \in 1..Len(sent) : sent[i][1] = FixedKey}) = 1
            /\ \E i \in 1..Len(sent) : sent[i] = <<FixedKey, FixedValue>>
            /\ PairsBut(sent, FixedKey) = PairsBut(given, FixedKey)

\* getFailed({limit: 10, status: ...}) and the like: params that hold a
\* status of their own.
C30_Witness ==
    /\ caller.op = "getRunning"
    /\ caller.params = Some(<< <<"status", JsStr("error")>>,
                               <<"limit", JsNum(10)>> >>)
    /\ call.sent # None
    /\ call.sent[1].url =
          "https://test-n8n.example.com/api/v1/executions?status=running&limit=10"

-----------------------------------------------------------------------------
(* Cursor pagination: the loop of a caller over list({cursor}),
     do { const { data, nextCursor } = await list({ cursor });
          all.push(...data); cursor = nextCursor; } while (cursor);
   against a server that holds one chain of pages *)

\* The URL on which the server serves page i: the first page without a
\* cursor, page i under the token that page i - 1 announced.
PageUrl(i) ==
    IF i = 1 THEN "https://test-n8n.example.com/api/v1/executions"
    ELSE "https://test-n8n.example.com/api/v1/executions?cursor="
             \o FormEncode(CursorToken(i))

\* The page that the server sends for this URL; a cursor it does not know
\* gets the first page.
PageAt(chain, url) ==
    IF \E i \in 2..Len(chain.sizes) : PageUrl(i) = url
    THEN CHOOSE i \in 2..Len(chain.sizes) : PageUrl(i) = url
    ELSE 1

ServerResponse(chain, url) ==
    [status |-> 200, contentType |-> Some(JsonContentType),
     body |-> JsonTexts[PageDoc(chain, PageAt(chain, url))]]

\* The loop starts: the first list({ cursor: undefined }).
StartPaging ==
    /\ client.state = "ok"
    /\ call.pc \in {"idle", "settled"}
    /\ caller.op = "paginate" => caller.done
    /\ \E chain \in Chains :
         caller' = [op |-> "paginate", chain |-> chain, cursor |-> JsUndefined,
                    all |-> <<>>, calls |-> 1, done |-> FALSE]
    /\ call' = list(client, Some(<< <<"cursor", JsUndefined>> >>))
    /\ UNCHANGED <<cfg, client, overridden, made, inflight>>

\* The server answers the request with the page that its URL names.
ServerSendsPage ==
    /\ caller.op = "paginate" /\ ~caller.done
    /\ call.pc = "fetching"
    /\ ~call.ctrlAborted
    /\ call' = OnResponse(call, ServerResponse(caller.chain, call.sent[1].url))
    /\ UNCHANGED <<cfg, client, overridden, made, inflight, caller>>

\* list() returns: the loop collects the items and goes on with the cursor
\* of the page, or ends when the cursor is falsy.
NextPage ==
    /\ caller.op = "paginate" /\ ~caller.done
    /\ call.pc = "settled"
    /\ call.outcome[1].kind = "resolved"
    /\ LET page == ListResult(call.outcome[1].value)
           collected == caller.all \o page.data.items
       IN  IF Truthy(page.nextCursor)
           THEN /\ caller' = [caller EXCEPT !.cursor = page.nextCursor,
                                            !.all = collected,
                                            !.calls = @ + 1]
                /\ call' = list(client, Some(<< <<"cursor", page.nextCursor>> >>))
           ELSE /\ caller' = [caller EXCEPT !.cursor = page.nextCursor,
                                            !.all = collected,
                                            !.done = TRUE]
                /\ UNCHANGED call
    /\ UNCHANGED <<cfg, client, overridden, made, inflight>>

NextPaging ==
    \/ ConstructFrom({TestConfig})
    \/ StartPaging
    \/ ServerSendsPage
    \/ BodyRead
    \/ NextPage

\* The server answers every request and sends the whole body, and the
\* continuations of the awaits run.
SpecPaging ==
    /\ Init /\ [][NextPaging]_vars
    /\ WF_vars(ServerSendsPage)
    /\ WF_vars(BodyRead)
    /\ WF_vars(NextPage)

Paging == caller.op = "paginate"

\* The items of the first n pages of the chain, in page order.
ItemsOfPages(chain, n) ==
    [k \in 1..ItemsBefore(chain, n + 1) |-> JsObj(<< <<"id", JsNum(k)>> >>)]

\* The loop has made one call for each page it has reached, at most one for
\* each page of the chain, holds the items of every page it has consumed once
\* and in page order, carries the token of the page it is fetching, and is
\* done exactly after the last page of the chain, with the cursor that this
\* page gave: undefined when it gave none.
PagesCollected ==
    Paging =>
        LET n == Len(caller.chain.sizes)
            consumed == IF caller.done THEN caller.calls ELSE caller.calls - 1
        IN  /\ caller.calls \in 1..n
            /\ caller.all = ItemsOfPages(caller.chain, consumed)
            /\ call.fetches = 1
            /\ ~caller.done =>
                  caller.cursor = IF caller.calls = 1 THEN JsUndefined
                                  ELSE JsStr(CursorToken(caller.calls))
            /\ caller.done =>
                  /\ caller.calls = n
                  /\ caller.cursor = IF caller.chain.last = "null"
                                     THEN JsNull ELSE JsUndefined

\* C29: list() returns the items of the response and its nextCursor as it
\* is; the loop that repeats list({cursor}) until no cursor is returned ends
\* on every finite chain of pages, makes exactly one call per page, and
\* collects every item of every page once, in page order.
C29_PaginationCollectsAll ==
    /\ []PagesCollected
    /\ (Paging /\ ~caller.done) ~> (Paging /\ caller.done)

\* Two pages, the second reached through the token that holds a space.
C29_Witness ==
    /\ Paging /\ caller.done
    /\ caller.chain = [sizes |-> <<2, 1>>, last |-> "absent"]
    /\ caller.calls = 2
    /\ Len(caller.all) = 3
    /\ call.sent[1].url =
          "https://test-n8n.example.com/api/v1/executions?cursor=a+b"

====
